---------------------------- MODULE Spec2Model ----------------------------
(***************************************************************************)
(* Model of Nyse_Lse_trading_bot_001.py: the polling loop, the per-symbol  *)
(* analysis-and-execution engine (run_symbol_analysis), the cooldown check *)
(* (is_enough_time_since_last_trade), the risk sizer (calculate_sl_tp) and *)
(* the order submission (execute_trade), together with the MetaTrader      *)
(* gateway they talk to (positions, deal history, order fills).            *)
(*                                                                         *)
(* Units.  Time is in whole seconds of the local wall clock, counted from  *)
(* local midnight of the day the bot starts.  Prices and ATR values are    *)
(* integers in units of 10^-6 (one "micro"), so that round(x, 5) is a real *)
(* rounding step.  A Python value that may be None is a sequence of length *)
(* 0 (None) or 1 (the value).                                              *)
(***************************************************************************)
EXTENDS Integers, Sequences, FiniteSets, TLC

(***************************************************************************)
(* Program constants                                                       *)
(***************************************************************************)
COUNTDOWN_TIMER_SECONDS == 300
SERVER_TIMEZONE_OFFSET_HOURS == 2
\* ATR_SL_MULTIPLIER = 1.5 and ATR_TP_MULTIPLIER = 2.0, in tenths
ATR_SL_MULTIPLIER_TENTHS == 15
ATR_TP_MULTIPLIER_TENTHS == 20
\* the cooldown of is_enough_time_since_last_trade: diff (minutes) < 10
COOLDOWN_MINUTES == 10
\* len(rates) < 50
MIN_BARS == 50
\* the signal thresholds on RSI
RSI_BUY_BELOW == 35
RSI_SELL_ABOVE == 65
\* TRADING_START_TIME = "08:05", TRADING_END_TIME = "20:55" as seconds of the day
TRADING_START_TIME == 8 * 3600 + 5 * 60
TRADING_END_TIME == 20 * 3600 + 55 * 60
SECONDS_PER_DAY == 24 * 3600

(***************************************************************************)
(* Bounds of the model                                                     *)
(***************************************************************************)
\* cycles of the main loop that are explored
MaxCycles == 3
\* orders the gateway fills (retcode DONE) over a run
MaxFills == 2

(***************************************************************************)
(* Optional values                                                         *)
(***************************************************************************)
None == << >>
Some(x) == << x >>
IsNone(o) == o = << >>
Val(o) == o[1]

(***************************************************************************)
(* Configuration: the rows of the symbol CSV, in file order.  daily_bias   *)
(* is the label after str(...).upper().strip(); "LONG" stands for any      *)
(* label that is none of BUY, SELL, BOTH, NONE.                            *)
(***************************************************************************)
SymbolOrder == << "VOD", "IBM" >>
Symbols == { SymbolOrder[i] : i \in 1..Len(SymbolOrder) }
\* base_volume * ACCOUNT_LOT_MULTIPLIER, in hundredths of a lot
BaseVolume == [ s \in Symbols |-> 10 ]


(***************************************************************************)
(* Gateway data.  A deal of the history carries the broker's timestamp in  *)
(* milliseconds; the broker's clock runs SERVER_TIMEZONE_OFFSET_HOURS      *)
(* ahead of the local clock.  entry = 0 is an opening deal, entry = 1 a    *)
(* closing deal.                                                           *)
(***************************************************************************)
ServerStampMs(t) == (t + SERVER_TIMEZONE_OFFSET_HOURS * 3600) * 1000
Deal(symbol, t, entry) == [ symbol |-> symbol, time_msc |-> ServerStampMs(t), entry |-> entry ]

\* mt5.history_deals_get(datetime.now() - timedelta(days=1), datetime.now())
history_deals_get(allDeals, t) ==
    { d \in allDeals : /\ ServerStampMs(t - SECONDS_PER_DAY) <= d.time_msc
                       /\ d.time_msc <= ServerStampMs(t) }

(***************************************************************************)
(* is_trading_active                                                       *)
(***************************************************************************)
is_trading_active(t) ==
    LET current_time == t % SECONDS_PER_DAY
    IN  TRADING_START_TIME <= current_time /\ current_time <= TRADING_END_TIME

(***************************************************************************)
(* is_enough_time_since_last_trade                                         *)
(***************************************************************************)
\* datetime.fromtimestamp(latest.time_msc/1000) - timedelta(hours=SERVER_TIMEZONE_OFFSET_HOURS)
CloseTimeOfDeal(d) == (d.time_msc \div 1000) - SERVER_TIMEZONE_OFFSET_HOURS * 3600

\* [d for d in history if d.symbol == symbol and d.entry == 1]
symbol_trades(history, symbol) ==
    { d \in history : d.symbol = symbol /\ d.entry = 1 }

\* the backfill of last_trade_close_time from a history result; history is
\* None when the call failed (returned None or raised), else the set of deals
backfill_close_time(history, symbol) ==
    IF IsNone(history) \/ Val(history) = {} THEN None
    ELSE LET trades == symbol_trades(Val(history), symbol)
         IN  IF trades = {} THEN None
             ELSE LET latest == CHOOSE d \in trades :
                                    \A e \in trades : e.time_msc <= d.time_msc
                  IN  Some(CloseTimeOfDeal(latest))

\* faulty variant (sensitivity of C15): the history is consulted in every run
needs_history_lookup_always(state) == TRUE

\* the history is consulted only while last_trade_close_time is None
needs_history_lookup(state) == IsNone(state.last_trade_close_time)

\* faulty variant (sensitivity of C3): the boundary minute still cools down
cooldown_active_inclusive(last_trade_close_time, t) ==
    (t - last_trade_close_time) <= COOLDOWN_MINUTES * 60

\* diff = (now - last_trade_close_time).total_seconds() / 60;  diff < 10
cooldown_active(last_trade_close_time, t) ==
    (t - last_trade_close_time) < COOLDOWN_MINUTES * 60

\* the whole function: the state it leaves and the skip flag it returns
is_enough_time_since_last_trade(state, symbol, t, history) ==
    LET cached == IF needs_history_lookup(state)
                  THEN backfill_close_time(history, symbol)
                  ELSE state.last_trade_close_time
        skip   == ~IsNone(cached) /\ cooldown_active(Val(cached), t)
    IN  [ state |-> [ state EXCEPT !.last_trade_close_time = cached ],
          skip  |-> skip,
          \* whole seconds of cooldown elapsed (mins, in seconds); 0 with no skip
          mins  |-> IF skip THEN t - Val(cached) ELSE 0 ]

(***************************************************************************)
(* calculate_sl_tp                                                         *)
(***************************************************************************)
\* round to the nearest multiple of m, ties to even (Python's round)
RoundToMultiple(x, m) ==
    LET q == x \div m
        r == x % m
    IN  IF 2 * r < m THEN q * m
        ELSE IF 2 * r > m THEN (q + 1) * m
        ELSE IF q % 2 = 0 THEN q * m ELSE (q + 1) * m

\* round(x, 5) of a value given in units of 10^-7; the result is in micros
Round5(x10) == RoundToMultiple(x10, 100) \div 10

\* faulty variant (sensitivity of C9): the two multipliers exchanged
calculate_sl_tp_exchanged(price, trade_type, atr_value) ==
    LET sl_dist == atr_value * ATR_TP_MULTIPLIER_TENTHS
        tp_dist == atr_value * ATR_SL_MULTIPLIER_TENTHS
    IN  IF trade_type = "BUY"
        THEN << Round5(price * 10 - sl_dist), Round5(price * 10 + tp_dist) >>
        ELSE << Round5(price * 10 + sl_dist), Round5(price * 10 - tp_dist) >>

\* faulty variant (sensitivity of C18): the levels are cut to micros, not
\* rounded to five decimals
calculate_sl_tp_unrounded(price, trade_type, atr_value) ==
    LET sl_dist == atr_value * ATR_SL_MULTIPLIER_TENTHS
        tp_dist == atr_value * ATR_TP_MULTIPLIER_TENTHS
    IN  IF trade_type = "BUY"
        THEN << (price * 10 - sl_dist) \div 10, (price * 10 + tp_dist) \div 10 >>
        ELSE << (price * 10 + sl_dist) \div 10, (price * 10 - tp_dist) \div 10 >>

calculate_sl_tp(price, trade_type, atr_value) ==
    LET sl_dist == atr_value * ATR_SL_MULTIPLIER_TENTHS
        tp_dist == atr_value * ATR_TP_MULTIPLIER_TENTHS
    IN  IF trade_type = "BUY"
        THEN << Round5(price * 10 - sl_dist), Round5(price * 10 + tp_dist) >>
        ELSE << Round5(price * 10 + sl_dist), Round5(price * 10 - tp_dist) >>

(***************************************************************************)
(* The strategy of run_symbol_analysis: the signal of the latest bar       *)
(***************************************************************************)
\* faulty variant (sensitivity of C17): the RSI thresholds are inclusive
strategy_signal_inclusive(lastbar) ==
    IF ~IsNone(lastbar.rsi) /\ Val(lastbar.rsi) <= RSI_BUY_BELOW /\ lastbar.low <= lastbar.lower
    THEN "BUY"
    ELSE IF ~IsNone(lastbar.rsi) /\ Val(lastbar.rsi) >= RSI_SELL_ABOVE /\ lastbar.high >= lastbar.upper
    THEN "SELL"
    ELSE "NONE"

\* a comparison with NaN is False
strategy_signal(lastbar) ==
    IF ~IsNone(lastbar.rsi) /\ Val(lastbar.rsi) < RSI_BUY_BELOW /\ lastbar.low <= lastbar.lower
    THEN "BUY"
    ELSE IF ~IsNone(lastbar.rsi) /\ Val(lastbar.rsi) > RSI_SELL_ABOVE /\ lastbar.high >= lastbar.upper
    THEN "SELL"
    ELSE "NONE"

\* faulty variant (sensitivity of C4): the bias filter left out
bias_rejects_never(direction) == FALSE

\* if direction == "NONE"
bias_rejects(direction) == direction = "NONE"

\* faulty variant (sensitivity of C16): only a missing answer counts
rates_insufficient_none_only(rates) == IsNone(rates)

\* if rates is None or len(rates) < 50
rates_insufficient(rates) == IsNone(rates) \/ Val(rates) < MIN_BARS

\* faulty variant (sensitivity of C1): the open-position filter left out
positions_open_never(positions) == FALSE

\* faulty variant (sensitivity of C10): one open position is let through
positions_open_several(positions) == ~IsNone(positions) /\ Val(positions) > 1

\* if positions:  (None and the empty tuple are falsy)
positions_open(positions) == ~IsNone(positions) /\ Val(positions) > 0

\* faulty variant (sensitivity of C6): the sizing step entered for every signal
signal_present_always(signal) == TRUE

\* if signal != "NONE"
signal_present(signal) == signal # "NONE"

\* faulty variant (sensitivity of C5): the signal traded whatever the bias
permitted_trade_any_bias(signal, direction) ==
    IF signal \in { "BUY", "SELL" } THEN Some(signal) ELSE None

\* the direction filter in front of execute_trade; the trade type or None
permitted_trade(signal, direction) ==
    IF signal = "BUY" /\ direction \in { "BUY", "BOTH" } THEN Some("BUY")
    ELSE IF signal = "SELL" /\ direction \in { "SELL", "BOTH" } THEN Some("SELL")
    ELSE None

(***************************************************************************)
(* execute_trade                                                           *)
(***************************************************************************)
\* info is None or the symbol's filling_mode bitmask
filling_mode(info) ==
    IF IsNone(info) THEN "FOK"
    ELSE IF (Val(info) \div 2) % 2 # 0 THEN "IOC"
    ELSE IF Val(info) % 2 # 0 THEN "FOK"
    ELSE "FOK"

\* if res and res.retcode == mt5.TRADE_RETCODE_DONE
order_done(res) == ~IsNone(res) /\ Val(res) = "DONE"

\* faulty variant (sensitivity of C8): a failed order is sent a second time
execute_trade_resend(state, symbol, trade_type, price, volume, sl, tp, info, res) ==
    LET request == [ symbol       |-> symbol,
                     volume       |-> volume,
                     type         |-> trade_type,
                     price        |-> price,
                     sl           |-> sl,
                     tp           |-> tp,
                     type_filling |-> filling_mode(info) ]
    IN  [ state    |-> IF order_done(res)
                       THEN [ state EXCEPT !.trades_executed = @ + 1 ]
                       ELSE state,
          requests |-> IF order_done(res) THEN << request >> ELSE << request, request >>,
          messages |-> IF order_done(res) THEN 1 ELSE 0 ]

\* faulty variant (sensitivity of C11): any answer of order_send counts as an
\* execution
execute_trade_counts_rejections(state, symbol, trade_type, price, volume, sl, tp, info, res) ==
    LET request == [ symbol       |-> symbol,
                     volume       |-> volume,
                     type         |-> trade_type,
                     price        |-> price,
                     sl           |-> sl,
                     tp           |-> tp,
                     type_filling |-> filling_mode(info) ]
    IN  [ state    |-> IF ~IsNone(res)
                       THEN [ state EXCEPT !.trades_executed = @ + 1 ]
                       ELSE state,
          requests |-> << request >>,
          messages |-> IF ~IsNone(res) THEN 1 ELSE 0 ]

\* the state execute_trade leaves, the requests it hands to order_send (in
\* order) and the number of execution messages it sends; res is the
\* gateway's answer to order_send
execute_trade(state, symbol, trade_type, price, volume, sl, tp, info, res) ==
    LET request == [ symbol       |-> symbol,
                     volume       |-> volume,
                     type         |-> trade_type,
                     price        |-> price,
                     sl           |-> sl,
                     tp           |-> tp,
                     type_filling |-> filling_mode(info) ]
    IN  [ state    |-> IF order_done(res)
                       THEN [ state EXCEPT !.trades_executed = @ + 1 ]
                       ELSE state,
          requests |-> << request >>,
          messages |-> IF order_done(res) THEN 1 ELSE 0 ]

(***************************************************************************)
(* Inputs of one analysis: what the gateway may answer                     *)
(***************************************************************************)
Price(units) == units * 1000000

\* the last row of the indicator frame (df.iloc[-1]): RSI in percent (None
\* is NaN), the bar's low and high, the Bollinger bounds and the ATR.  A bar
\* with a range has a positive ATR; fourteen flat bars give ATR = 0 and,
\* with twenty flat closes, bands that coincide with the price.
\* the bar touches the lower band (low = lower) or the upper band (high = upper)
AtLowerBand == << Price(99), Price(102) >>
AtUpperBand == << Price(98), Price(101) >>
RangingBars ==
    { [ rsi |-> c[1], low |-> Price(99), high |-> Price(101),
        lower |-> c[2][1], upper |-> c[2][2], atr |-> Price(2) ] :
      c \in { << None, AtLowerBand >>,
              << Some(30), AtLowerBand >>, << Some(30), AtUpperBand >>,
              << Some(35), AtLowerBand >>, << Some(65), AtUpperBand >>,
              << Some(70), AtLowerBand >>, << Some(70), AtUpperBand >> } }
FlatBars ==
    { [ rsi |-> Some(30), low |-> Price(100), high |-> Price(100),
        lower |-> Price(100), upper |-> Price(100), atr |-> 0 ] }
LastBars == RangingBars \cup FlatBars

\* copy_rates_from_pos: None, or the number of bars returned
RatesResults == { None, Some(MIN_BARS - 1), Some(MIN_BARS) }
\* symbol_info_tick: None, or the quote
TickResults == { None, Some([ bid |-> Price(100) - 20000, ask |-> Price(100) ]) }
\* symbol_info: None, or the filling_mode bitmask
InfoResults == { None, Some(0), Some(1), Some(2), Some(3) }

(***************************************************************************)
(* State                                                                   *)
(***************************************************************************)
VARIABLES
    now,                 \* datetime.now(), seconds
    pc,                  \* place in the main loop
    idx,                 \* next row of ALL_SYMBOLS_CONFIG in this cycle
    analysis_cycles,
    LAST_STATUS_UPDATE,
    ALL_SYMBOLS_CONFIG,
    SYMBOL_STATES,
    positions,           \* gateway: open positions per symbol
    deals,               \* gateway: the deal history
    fills,               \* gateway: orders filled so far
    lastRun,             \* record of the cycle's latest run_symbol_analysis call
    sentThisCycle,       \* order_send calls per symbol in the current cycle
    execution_messages,  \* execution messages sent per symbol
    orders_done,         \* gateway: order_send calls answered DONE, per symbol
    history_lookups,     \* gateway: history_deals_get calls made for each symbol
    crash_messages,      \* "Bot Crashed" messages sent
    sizing               \* the latest evaluation of calculate_sl_tp on its own

vars == << now, pc, idx, analysis_cycles, LAST_STATUS_UPDATE, ALL_SYMBOLS_CONFIG,
           SYMBOL_STATES, positions, deals, fills, lastRun, sentThisCycle,
           execution_messages, orders_done, history_lookups, crash_messages,
           sizing >>

\* the bot is started at 08:00:00, five minutes before the trading window opens
StartTime == 8 * 3600

\* the DAILY_BIAS column of the symbol CSV, one entry per row of SymbolOrder
BiasColumns == { << "BOTH", "NONE" >>, << "LONG", "BUY" >>, << "NONE", "SELL" >> }

\* what the broker's deal history holds at start-up
InitialHistories ==
    { {},
      { Deal("VOD", StartTime - 299, 1) },
      { Deal("VOD", StartTime - 300, 1) },
      { Deal("VOD", StartTime - SECONDS_PER_DAY - 3600, 1) },
      { Deal("VOD", StartTime - 700, 0), Deal("VOD", StartTime - 600, 1),
        Deal("IBM", StartTime, 1) } }

\* load_symbol_config: one config row and one fresh state per symbol
InitialState ==
    [ trades_executed       |-> 0,
      consecutive_losses    |-> 0,
      last_trade_close_time |-> None,
      last_skipped_reason   |-> "None" ]

Init ==
    /\ now = StartTime
    /\ pc = "loop"
    /\ idx = 1
    /\ analysis_cycles = 0
    /\ LAST_STATUS_UPDATE = None
    /\ ALL_SYMBOLS_CONFIG \in
         { [ s \in Symbols |->
               [ base_volume |-> BaseVolume[s],
                 daily_bias  |-> column[CHOOSE i \in 1..Len(SymbolOrder) : SymbolOrder[i] = s] ] ] :
           column \in BiasColumns }
    /\ SYMBOL_STATES = [ s \in Symbols |-> InitialState ]
    /\ positions = [ s \in Symbols |-> 0 ]
    /\ deals \in InitialHistories
    /\ fills = 0
    /\ lastRun = None
    /\ sentThisCycle = [ s \in Symbols |-> 0 ]
    /\ execution_messages = [ s \in Symbols |-> 0 ]
    /\ orders_done = [ s \in Symbols |-> 0 ]
    /\ history_lookups = [ s \in Symbols |-> 0 ]
    /\ crash_messages = 0
    /\ sizing = None

(***************************************************************************)
(* Gateway                                                                 *)
(***************************************************************************)
\* the close time (local clock) of the symbol's most recent closing deal
GatewayLastClose(symbol) ==
    LET closes == { CloseTimeOfDeal(d) : d \in symbol_trades(deals, symbol) }
    IN  IF closes = {} THEN None
        ELSE Some(CHOOSE c \in closes : \A e \in closes : e <= c)

\* history_deals_get answers None (failure) or the deals of the last day
HistoryResults == { None, Some(history_deals_get(deals, now)) }
\* positions_get answers None (failure) or the symbol's open positions
PositionsResults(symbol) == { None, Some(positions[symbol]) }
\* order_send answers None, a rejection, or DONE
OrderResults ==
    { None, Some("REJECTED") } \cup (IF fills < MaxFills THEN { Some("DONE") } ELSE {})

\* a position is closed at the broker (stop-loss, take-profit or by hand)
ClosePosition(symbol) ==
    /\ positions[symbol] > 0
    /\ positions' = [ positions EXCEPT ![symbol] = @ - 1 ]
    /\ deals' = deals \cup { Deal(symbol, now, 1) }
    /\ UNCHANGED << now, pc, idx, analysis_cycles, LAST_STATUS_UPDATE, ALL_SYMBOLS_CONFIG,
                    SYMBOL_STATES, fills, lastRun, sentThisCycle, execution_messages,
                    orders_done, history_lookups, crash_messages, sizing >>

(***************************************************************************)
(* run_symbol_analysis                                                     *)
(***************************************************************************)
\* the record of a run before any collaborator was called
RunRecord(symbol) ==
    [ symbol        |-> symbol,
      t             |-> now,
      direction     |-> ALL_SYMBOLS_CONFIG[symbol].daily_bias,
      trades_before |-> SYMBOL_STATES[symbol].trades_executed,
      reason_before |-> SYMBOL_STATES[symbol].last_skipped_reason,
      gw_last_close |-> GatewayLastClose(symbol),
      gw_positions  |-> positions[symbol],
      calls         |-> {},
      close_time    |-> None,    \* last_trade_close_time the cooldown test read
      skip          |-> FALSE,   \* the cooldown verdict
      rates         |-> None,
      lastbar       |-> None,
      signal        |-> None,
      positions     |-> None,
      tick          |-> None,
      levels        |-> None,    \* << sl, tp >> of calculate_sl_tp
      info          |-> None,
      requests      |-> << >>,   \* what went to order_send
      res           |-> None,
      messages      |-> 0 ]

\* the run returns: its effects on the program and on the gateway
Return(symbol, state, run) ==
    LET sent   == Len(run.requests)
        filled == IF order_done(run.res) THEN sent ELSE 0
    IN  /\ SYMBOL_STATES' = [ SYMBOL_STATES EXCEPT ![symbol] = state ]
        /\ lastRun' = Some(run)
        /\ sentThisCycle' = [ sentThisCycle EXCEPT ![symbol] = @ + sent ]
        /\ execution_messages' = [ execution_messages EXCEPT ![symbol] = @ + run.messages ]
        /\ positions' = [ positions EXCEPT ![symbol] = @ + filled ]
        /\ deals' = IF filled > 0 THEN deals \cup { Deal(symbol, now, 0) } ELSE deals
        /\ fills' = fills + filled
        /\ orders_done' = [ orders_done EXCEPT ![symbol] = @ + filled ]
        /\ history_lookups' =
             [ history_lookups EXCEPT
                 ![symbol] = @ + (IF "history_deals_get" \in run.calls THEN 1 ELSE 0) ]
        /\ idx' = idx + 1
        /\ pc' = IF idx = Len(SymbolOrder) THEN "cycle_end" ELSE "analysing"
        /\ UNCHANGED << now, analysis_cycles, LAST_STATUS_UPDATE, ALL_SYMBOLS_CONFIG,
                        crash_messages, sizing >>

\* step 4 once the quote is there: size and submit
Execution(symbol, state, run, direction, signal, atr_value, tick) ==
    IF signal_present(signal)
    THEN LET vol    == ALL_SYMBOLS_CONFIG[symbol].base_volume
             price  == IF signal = "BUY" THEN tick.ask ELSE tick.bid
             levels == calculate_sl_tp(price, signal, atr_value)
             sized  == [ run EXCEPT !.calls = @ \cup { "calculate_sl_tp" },
                                    !.levels = Some(levels) ]
             trade  == permitted_trade(signal, direction)
         IN  IF ~IsNone(trade)
             THEN \E info \in InfoResults, res \in OrderResults :
                    LET done == execute_trade(state, symbol, Val(trade), price, vol,
                                              levels[1], levels[2], info, res)
                    IN  Return(symbol, done.state,
                               [ sized EXCEPT
                                   !.calls = @ \cup { "execute_trade", "symbol_info", "order_send" }
                                               \cup (IF done.messages > 0
                                                     THEN { "send_trade_execution_message" }
                                                     ELSE {}),
                                   !.info = info,
                                   !.requests = done.requests,
                                   !.res = res,
                                   !.messages = done.messages ])
             ELSE Return(symbol, state, sized)
    ELSE Return(symbol, state, run)

\* steps 3 and 4: bars, indicators, signal, open-position check, quote
Analysis(symbol, state, run, direction) ==
    \E rates \in RatesResults :
      LET fetched == [ run EXCEPT !.calls = @ \cup { "copy_rates_from_pos" },
                                  !.rates = rates ]
      IN  IF rates_insufficient(rates)
          THEN Return(symbol, state, fetched)
          ELSE \E lastbar \in LastBars, reported \in PositionsResults(symbol) :
                 LET signal  == strategy_signal(lastbar)
                     checked == [ fetched EXCEPT !.calls = @ \cup { "positions_get" },
                                                 !.lastbar = Some(lastbar),
                                                 !.signal = Some(signal),
                                                 !.positions = reported ]
                 IN  IF positions_open(reported)
                     THEN Return(symbol,
                                 [ state EXCEPT !.last_skipped_reason = "Position Open" ],
                                 checked)
                     ELSE \E tick \in TickResults :
                            LET quoted == [ checked EXCEPT
                                              !.calls = @ \cup { "symbol_info_tick" },
                                              !.tick = tick ]
                            IN  IF IsNone(tick)
                                THEN Return(symbol, state, quoted)
                                ELSE Execution(symbol, state, quoted, direction, signal,
                                               lastbar.atr, Val(tick))

RunSymbolAnalysis ==
    /\ pc = "analysing"
    /\ LET symbol    == SymbolOrder[idx]
           state     == SYMBOL_STATES[symbol]
           direction == ALL_SYMBOLS_CONFIG[symbol].daily_bias
           run       == RunRecord(symbol)
       IN  IF bias_rejects(direction)
           THEN Return(symbol, [ state EXCEPT !.last_skipped_reason = "Daily Bias NONE" ], run)
           ELSE \E history \in (IF needs_history_lookup(state) THEN HistoryResults ELSE { None }) :
                  LET cd      == is_enough_time_since_last_trade(state, symbol, now, history)
                      cooled  == [ run EXCEPT
                                     !.calls = IF needs_history_lookup(state)
                                               THEN { "history_deals_get" } ELSE {},
                                     !.close_time = cd.state.last_trade_close_time,
                                     !.skip = cd.skip ]
                  IN  IF cd.skip
                      THEN Return(symbol,
                                  [ cd.state EXCEPT !.last_skipped_reason = "Cooldown" ],
                                  cooled)
                      ELSE Analysis(symbol, cd.state, cooled, direction)

(***************************************************************************)
(* The main loop                                                           *)
(***************************************************************************)
\* while True: ... if is_trading_active(): for symbol in ALL_SYMBOLS_CONFIG
CycleBegin ==
    /\ pc = "loop"
    /\ analysis_cycles < MaxCycles
    /\ pc' = IF is_trading_active(now) THEN "analysing" ELSE "cycle_end"
    /\ idx' = 1
    /\ sentThisCycle' = [ s \in Symbols |-> 0 ]
    /\ UNCHANGED << now, analysis_cycles, LAST_STATUS_UPDATE, ALL_SYMBOLS_CONFIG,
                    SYMBOL_STATES, positions, deals, fills, lastRun, execution_messages,
                    orders_done, history_lookups, crash_messages, sizing >>

\* analysis_cycles += 1; check_status_update(); time.sleep(COUNTDOWN_TIMER_SECONDS)
CycleEnd ==
    /\ pc = "cycle_end"
    /\ analysis_cycles' = analysis_cycles + 1
    /\ LAST_STATUS_UPDATE' =
         IF IsNone(LAST_STATUS_UPDATE) \/ now - Val(LAST_STATUS_UPDATE) >= 3600
         THEN Some(now) ELSE LAST_STATUS_UPDATE
    /\ now' = now + COUNTDOWN_TIMER_SECONDS
    /\ pc' = "loop"
    /\ lastRun' = None
    /\ UNCHANGED << idx, ALL_SYMBOLS_CONFIG, SYMBOL_STATES, positions, deals, fills,
                    sentThisCycle, execution_messages, orders_done, history_lookups,
                    crash_messages, sizing >>

\* an exception escapes run_symbol_analysis while the bars are fetched or the
\* indicators computed (the bias and cooldown steps are behind it).  The only
\* handler is the except clause around the whole while loop: it sends the
\* crash message and the program runs off its end.
RunSymbolAnalysisRaises ==
    /\ pc = "analysing"
    /\ LET symbol    == SymbolOrder[idx]
           state     == SYMBOL_STATES[symbol]
           direction == ALL_SYMBOLS_CONFIG[symbol].daily_bias
       IN  /\ ~bias_rejects(direction)
           /\ \E history \in (IF needs_history_lookup(state) THEN HistoryResults ELSE { None }) :
                LET cd == is_enough_time_since_last_trade(state, symbol, now, history)
                IN  /\ ~cd.skip
                    /\ SYMBOL_STATES' = [ SYMBOL_STATES EXCEPT ![symbol] = cd.state ]
           /\ history_lookups' =
                [ history_lookups EXCEPT
                    ![symbol] = @ + (IF needs_history_lookup(state) THEN 1 ELSE 0) ]
    /\ crash_messages' = crash_messages + 1
    /\ pc' = "crashed"
    /\ lastRun' = None
    /\ UNCHANGED << now, idx, analysis_cycles, LAST_STATUS_UPDATE, ALL_SYMBOLS_CONFIG,
                    positions, deals, fills, sentThisCycle, execution_messages,
                    orders_done, sizing >>

Next ==
    \/ CycleBegin
    \/ RunSymbolAnalysis
    \/ RunSymbolAnalysisRaises
    \/ CycleEnd
    \/ \E symbol \in Symbols : ClosePosition(symbol)

Spec == Init /\ [][Next]_vars

(***************************************************************************)
(* The same program in front of a gateway whose positions_get always       *)
(* answers with the positions that are really open                         *)
(***************************************************************************)
TruthfulRun ==
    /\ RunSymbolAnalysis
    /\ LET run == Val(lastRun')
       IN  "positions_get" \in run.calls => run.positions = Some(run.gw_positions)

NextTruthful ==
    \/ CycleBegin
    \/ TruthfulRun
    \/ RunSymbolAnalysisRaises
    \/ CycleEnd
    \/ \E symbol \in Symbols : ClosePosition(symbol)

SpecTruthful == Init /\ [][NextTruthful]_vars

(***************************************************************************)
(* calculate_sl_tp on its own: the function applied to prices and ATR      *)
(* values from small sets, among them prices with more than five decimals  *)
(* and ATR values below one unit of the fifth decimal                      *)
(***************************************************************************)
SizerPrices ==
    { Price(100), Price(100) - 20000, Price(1) + 100000, Price(1) + 6,
      Price(50) + 4, Price(7) + 123455 }
SizerAtrs == { 0, 1, 3, 4, 7, 10, 15, 125, Price(2), Price(2) + 500000 }
SizerTypes == { "BUY", "SELL" }

InitSizer ==
    /\ Init
    /\ deals = {}
    /\ ALL_SYMBOLS_CONFIG["VOD"].daily_bias = "BOTH"

ApplySizer ==
    /\ \E price \in SizerPrices, trade_type \in SizerTypes, atr_value \in SizerAtrs :
         sizing' = Some([ price      |-> price,
                          trade_type |-> trade_type,
                          atr_value  |-> atr_value,
                          levels     |-> calculate_sl_tp(price, trade_type, atr_value) ])
    /\ UNCHANGED << now, pc, idx, analysis_cycles, LAST_STATUS_UPDATE, ALL_SYMBOLS_CONFIG,
                    SYMBOL_STATES, positions, deals, fills, lastRun, sentThisCycle,
                    execution_messages, orders_done, history_lookups, crash_messages >>

NextSizer == ApplySizer

SpecSizer == InitSizer /\ [][NextSizer]_vars

(***************************************************************************)
(* Properties                                                              *)
(***************************************************************************)
Ran == ~IsNone(lastRun)
Run == Val(lastRun)
Sent == Run.requests # << >>
CooldownSeconds == 10 * 60

\* C1: in front of a gateway that opens one position per successful
\* order_send and reports open positions truthfully, no instrument ever has
\* more than one open position, and execute_trade is called for an
\* instrument only in a run in which the gateway reported no open position.
C1_OnePositionPerInstrument ==
    /\ \A s \in Symbols : positions[s] <= 1
    /\ Ran /\ "execute_trade" \in Run.calls =>
         /\ Run.positions = Some(0)
         /\ Run.gw_positions = 0

\* C1 witness: an instrument holds its one position and a run with a
\* BUY or SELL signal for it was turned away by the open-position check.
C1_Witness ==
    /\ Ran
    /\ positions[Run.symbol] = 1
    /\ Run.positions = Some(1)
    /\ Run.signal \in { Some("BUY"), Some("SELL") }
    /\ ~Sent

\* C2: run_symbol_analysis never submits an order for an instrument when
\* fewer than 10 minutes have passed since the most recent close of a
\* position on it; stated for the runs that found last_trade_close_time
\* already populated, so that closes of the current process run count.
C2_NoOrderWithinCooldownOfLatestClose ==
    Ran /\ Sent /\ ~IsNone(Run.close_time) /\ ~IsNone(Run.gw_last_close) =>
        Run.t - Val(Run.gw_last_close) >= CooldownSeconds

\* C3: with last_trade_close_time = T the cooldown check reports skip for
\* every check time before T + 10 minutes and no skip from T + 10 minutes on.
C3_CooldownBoundary ==
    Ran /\ ~IsNone(Run.close_time) =>
        (Run.skip <=> Run.t < Val(Run.close_time) + CooldownSeconds)

\* C3 witness: a check made exactly 10 minutes after T passes.
C3_Witness ==
    /\ Ran
    /\ ~IsNone(Run.close_time)
    /\ Run.t = Val(Run.close_time) + CooldownSeconds
    /\ ~Run.skip

\* C4: for an instrument whose daily_bias is NONE a run calls no
\* collaborator (bars, deal history, positions, quote, order); it sets
\* last_skipped_reason to "Daily Bias NONE" and changes nothing else.
C4_BiasNoneShortCircuit ==
    /\ Ran /\ Run.direction = "NONE" =>
         /\ Run.calls = {}
         /\ ~Sent
         /\ SYMBOL_STATES[Run.symbol].last_skipped_reason = "Daily Bias NONE"
    /\ \A s \in Symbols : ALL_SYMBOLS_CONFIG[s].daily_bias = "NONE" =>
         /\ SYMBOL_STATES[s].trades_executed = 0
         /\ IsNone(SYMBOL_STATES[s].last_trade_close_time)
         /\ SYMBOL_STATES[s].last_skipped_reason \in { "None", "Daily Bias NONE" }
         /\ sentThisCycle[s] = 0
         /\ positions[s] = 0

\* C4 witness: a run for an instrument with bias NONE has returned.
C4_Witness ==
    /\ Ran
    /\ Run.direction = "NONE"
    /\ SYMBOL_STATES[Run.symbol].last_skipped_reason = "Daily Bias NONE"

\* C5: every submitted order has a direction the instrument's daily bias
\* permits: BUY only under BUY or BOTH, SELL only under SELL or BOTH, and
\* no order under NONE or any other label.
C5_OrderDirectionPermitted ==
    Ran =>
        /\ \A i \in 1..Len(Run.requests) :
             /\ Run.requests[i].type = "BUY" => Run.direction \in { "BUY", "BOTH" }
             /\ Run.requests[i].type = "SELL" => Run.direction \in { "SELL", "BOTH" }
        /\ Run.direction \notin { "BUY", "SELL", "BOTH" } => ~Sent

\* C5 witness: an order went out under a one-sided bias, in its direction.
C5_Witness ==
    /\ Ran
    /\ Sent
    /\ Run.direction \in { "BUY", "SELL" }
    /\ Run.requests[1].type = Run.direction

\* C6: in a run whose signal is NONE neither calculate_sl_tp nor
\* execute_trade is invoked and no order is sent.
C6_NoneSignalNotSized ==
    Ran /\ Run.signal = Some("NONE") =>
        /\ "calculate_sl_tp" \notin Run.calls
        /\ "execute_trade" \notin Run.calls
        /\ "order_send" \notin Run.calls
        /\ IsNone(Run.levels)
        /\ ~Sent

\* C6 witness: a run with signal NONE got past every gate and the quote.
C6_Witness ==
    /\ Ran
    /\ Run.signal = Some("NONE")
    /\ ~IsNone(Run.tick)
    /\ Run.direction = "BOTH"

\* C7: whenever the ATR of the latest bar is zero the risk sizer produces
\* no levels and no order is submitted in that run.
C7_AtrGuard ==
    Ran /\ ~IsNone(Run.lastbar) /\ Val(Run.lastbar).atr = 0 =>
        /\ IsNone(Run.levels)
        /\ ~Sent

\* C8: at most one order_send is issued per instrument within a cycle,
\* also when the gateway rejects the order; an order is only ever sent by a
\* run that evaluated the signal and the gates itself and found them agree.
C8_OneOrderPerCycle ==
    /\ \A s \in Symbols : sentThisCycle[s] <= 1
    /\ Ran => Len(Run.requests) <= 1
    /\ Ran /\ Sent =>
         /\ Run.direction # "NONE"
         /\ ~Run.skip
         /\ ~IsNone(Run.rates) /\ Val(Run.rates) >= MIN_BARS
         /\ Run.signal \in { Some("BUY"), Some("SELL") }
         /\ Run.positions \in { None, Some(0) }
         /\ ~IsNone(Run.tick)
         /\ { "copy_rates_from_pos", "positions_get", "symbol_info_tick" } \subseteq Run.calls

\* C8 witness: the gateway rejected an order and the cycle's analysis ended
\* with that single order_send for the instrument.
C8_Witness ==
    /\ Ran
    /\ pc = "cycle_end"
    /\ Sent
    /\ ~order_done(Run.res)
    /\ sentThisCycle[Run.symbol] = 1

\* the scenario of C9: bias BOTH, RSI = 30 and low <= bb_lower on the latest
\* bar, the gateway reports no open position and the cooldown is satisfied
C9_Scenario ==
    /\ Ran
    /\ Run.direction = "BOTH"
    /\ ~Run.skip
    /\ ~IsNone(Run.lastbar)
    /\ Val(Run.lastbar).rsi = Some(30)
    /\ Val(Run.lastbar).low <= Val(Run.lastbar).lower
    /\ Run.positions = Some(0)
    /\ Run.gw_positions = 0

\* C9: in that scenario, with a quote from the gateway, one run submits
\* exactly one BUY order at the ask whose stop-loss is 1.5 ATR below and
\* whose take-profit is 2 ATR above the price; the gateway answering DONE,
\* trades_executed goes up by exactly 1 and exactly one execution message
\* is sent.
C9_EndToEndBuy ==
    C9_Scenario /\ ~IsNone(Run.tick) =>
        /\ Len(Run.requests) = 1
        /\ Run.requests[1].type = "BUY"
        /\ Run.requests[1].symbol = Run.symbol
        /\ Run.requests[1].price = Val(Run.tick).ask
        /\ 2 * (Run.requests[1].price - Run.requests[1].sl) = 3 * Val(Run.lastbar).atr
        /\ Run.requests[1].tp - Run.requests[1].price = 2 * Val(Run.lastbar).atr
        /\ order_done(Run.res) =>
             /\ SYMBOL_STATES[Run.symbol].trades_executed = Run.trades_before + 1
             /\ Run.messages = 1

\* C9 witness: the scenario ran on a ranging bar and the order was filled.
C9_Witness ==
    /\ C9_Scenario
    /\ Val(Run.lastbar).atr > 0
    /\ order_done(Run.res)
    /\ SYMBOL_STATES[Run.symbol].trades_executed = 1

\* C10: when the bias and cooldown gates pass, at least 50 bars are there
\* and the gateway reports an open position, the run submits no order and
\* leaves last_skipped_reason = "Position Open", whatever the signal.
C10_PositionOpenSkips ==
    Ran /\ Run.direction # "NONE" /\ ~Run.skip
        /\ ~IsNone(Run.rates) /\ Val(Run.rates) >= MIN_BARS
        /\ ~IsNone(Run.positions) /\ Val(Run.positions) > 0 =>
        /\ ~Sent
        /\ "order_send" \notin Run.calls
        /\ SYMBOL_STATES[Run.symbol].last_skipped_reason = "Position Open"
        /\ SYMBOL_STATES[Run.symbol].trades_executed = Run.trades_before

\* C10 witness: a BUY signal met an open position and was skipped.
C10_Witness ==
    /\ Ran
    /\ Run.signal = Some("BUY")
    /\ Run.positions = Some(1)
    /\ SYMBOL_STATES[Run.symbol].last_skipped_reason = "Position Open"

\* C11: for every instrument trades_executed equals the number of order_send
\* calls for it that the gateway answered DONE since start-up, and so does
\* the number of execution messages; a run raises the counter by one and
\* sends one message exactly when its order was answered DONE, and leaves
\* the counter alone and sends nothing when the order was rejected, got no
\* answer, or no order was sent.
C11_TradesExecutedCountsDone ==
    /\ \A s \in Symbols :
         /\ SYMBOL_STATES[s].trades_executed = orders_done[s]
         /\ execution_messages[s] = orders_done[s]
    /\ Ran =>
         LET gain == IF Sent /\ ~IsNone(Run.res) /\ Val(Run.res) = "DONE" THEN 1 ELSE 0
         IN  /\ SYMBOL_STATES[Run.symbol].trades_executed = Run.trades_before + gain
             /\ Run.messages = gain

\* a rejected order after an earlier executed one: the counter stays at one
C11_Witness ==
    /\ Ran /\ Sent
    /\ Run.res = Some("REJECTED")
    /\ Run.trades_before = 1
    /\ SYMBOL_STATES[Run.symbol].trades_executed = 1
    /\ orders_done[Run.symbol] = 1

\* C12: when the bar fetch, the open-position query or the quote query of a
\* run comes back with nothing (None), the run sends no order for the
\* instrument and returns, so that the loop goes on with the next instrument.
C12_GatewayFailureSkips ==
    Ran =>
      LET failed ==
            \/ "copy_rates_from_pos" \in Run.calls /\ IsNone(Run.rates)
            \/ "positions_get" \in Run.calls /\ IsNone(Run.positions)
            \/ "symbol_info_tick" \in Run.calls /\ IsNone(Run.tick)
      IN  failed => /\ ~Sent
                    /\ "order_send" \notin Run.calls
                    /\ pc \in { "analysing", "cycle_end" }

\* C13: an exception raised while an instrument is processed does not end
\* the polling loop: once the crash message of the handler has been sent the
\* program is still inside the loop (at its head, analysing, or at the end of
\* a cycle), from where further cycles follow.
C13_LoopSurvivesException ==
    crash_messages > 0 => pc \in { "loop", "analysing", "cycle_end" }

\* C14: over the life of the process history_deals_get is called at most
\* once for each instrument, whatever the lookup returned.
C14_HistoryLookupOnce ==
    \A s \in Symbols : history_lookups[s] <= 1

\* C15: once last_trade_close_time of an instrument is set, no step makes it
\* None again and no step moves it to an earlier time.
C15_CloseTimeMonotone ==
    [][ \A s \in Symbols :
          LET before == SYMBOL_STATES[s].last_trade_close_time
              after  == SYMBOL_STATES'[s].last_trade_close_time
          IN  ~IsNone(before) => ~IsNone(after) /\ Val(after) >= Val(before) ]_vars

\* a run that found a close time cached from an earlier cycle, did not look
\* the history up again and left the cached time in place
C15_Witness ==
    /\ Ran
    /\ Run.t > StartTime + COUNTDOWN_TIMER_SECONDS
    /\ ~IsNone(Run.close_time)
    /\ "history_deals_get" \notin Run.calls
    /\ "copy_rates_from_pos" \in Run.calls
    /\ SYMBOL_STATES[Run.symbol].last_trade_close_time = Run.close_time

\* C16: a run that got fewer than 50 bars (but got bars) ends there: no
\* signal is computed, positions and quote are not queried, nothing is sized
\* or sent, the counter and the skip reason stay as they were, and the loop
\* goes on.
C16_FewBarsSilentSkip ==
    Ran /\ ~IsNone(Run.rates) /\ Val(Run.rates) < 50 =>
      /\ IsNone(Run.signal) /\ IsNone(Run.lastbar)
      /\ Run.calls \subseteq { "history_deals_get", "copy_rates_from_pos" }
      /\ ~Sent /\ IsNone(Run.levels)
      /\ SYMBOL_STATES[Run.symbol].trades_executed = Run.trades_before
      /\ SYMBOL_STATES[Run.symbol].last_skipped_reason = Run.reason_before
      /\ pc \in { "analysing", "cycle_end" }

\* 49 bars for an instrument that passed the bias and cooldown filters
C16_Witness ==
    /\ Ran
    /\ Run.direction = "BOTH"
    /\ Run.rates = Some(49)
    /\ ~Run.skip
    /\ IsNone(Run.signal)

\* C17: the signal of a run is BUY exactly when RSI < 35 and low <= bb_lower
\* on the latest bar; otherwise SELL exactly when RSI > 65 and high >=
\* bb_upper; otherwise NONE (a NaN RSI satisfies neither comparison).  The
\* signal is thereby a function of the latest bar alone.
C17_SignalRule ==
    Ran /\ ~IsNone(Run.lastbar) =>
      LET bar  == Val(Run.lastbar)
          buy  == ~IsNone(bar.rsi) /\ Val(bar.rsi) < 35 /\ bar.low <= bar.lower
          sell == ~IsNone(bar.rsi) /\ Val(bar.rsi) > 65 /\ bar.high >= bar.upper
      IN  /\ Run.signal = Some("BUY") <=> buy
          /\ Run.signal = Some("SELL") <=> ~buy /\ sell
          /\ Run.signal = Some("NONE") <=> ~buy /\ ~sell

\* a bar at the lower band with RSI exactly 35: no signal
C17_Witness ==
    /\ Ran /\ ~IsNone(Run.lastbar)
    /\ Val(Run.lastbar).rsi = Some(35)
    /\ Val(Run.lastbar).low <= Val(Run.lastbar).lower
    /\ Run.signal = Some("NONE")

\* distance of two integers
Distance(a, b) == IF a >= b THEN a - b ELSE b - a

\* what C18 says of the latest evaluation of calculate_sl_tp, with the
\* ordering of the levels required for every ATR of at least min_atr micros:
\* each level is the exact level (price -/+ 1.5 ATR, price +/- 2 ATR)
\* rounded to five decimals; price 100 and ATR 2 give (97, 104) for BUY and
\* (103, 96) for SELL; BUY has sl < price < tp and SELL has tp < price < sl
SizerAsClaimed(min_atr) ==
    ~IsNone(sizing) =>
      LET price == Val(sizing).price
          atr   == Val(sizing).atr_value
          buy   == Val(sizing).trade_type = "BUY"
          sl    == Val(sizing).levels[1]
          tp    == Val(sizing).levels[2]
          \* the exact levels, in units of 10^-7
          sl10  == IF buy THEN 10 * price - 15 * atr ELSE 10 * price + 15 * atr
          tp10  == IF buy THEN 10 * price + 20 * atr ELSE 10 * price - 20 * atr
      IN  /\ sl % 10 = 0 /\ Distance(10 * sl, sl10) <= 50
          /\ tp % 10 = 0 /\ Distance(10 * tp, tp10) <= 50
          /\ price = Price(100) /\ atr = Price(2) =>
               << sl, tp >> = IF buy THEN << Price(97), Price(104) >>
                                     ELSE << Price(103), Price(96) >>
          /\ atr >= min_atr =>
               IF buy THEN sl < price /\ price < tp
                      ELSE tp < price /\ price < sl

\* C18 as stated: the levels follow the formulas, rounded to five decimals,
\* the two examples come out, and for every ATR > 0 (one micro and more) a
\* BUY has sl < price < tp and a SELL has tp < price < sl.
C18_SizerAsStated == SizerAsClaimed(1)

\* C18 amended: the same, with the strict ordering of the levels for every
\* ATR of at least 0.00001 (ten micros); below that the rounding to five
\* decimals can put a level on the price itself.
C18_SizerRounded == SizerAsClaimed(10)

\* an ATR of exactly 0.00001 on a price with six decimals: the BUY levels
\* are rounded and still lie on either side of the price
C18_Witness ==
    /\ ~IsNone(sizing)
    /\ Val(sizing).price = Price(1) + 6
    /\ Val(sizing).atr_value = 10
    /\ Val(sizing).trade_type = "BUY"
    /\ Val(sizing).levels[1] < Val(sizing).price
    /\ Val(sizing).price < Val(sizing).levels[2]

\* C19: last_skipped_reason is overwritten in every cycle: after a run the
\* reason of the instrument describes how that run ended, so a reason left
\* by an earlier cycle is not found after a run that ended differently
\* (too few bars, no quote, signal NONE, an order sent).
C19_ReasonOverwrittenEveryCycle ==
    Ran =>
      LET reason == SYMBOL_STATES[Run.symbol].last_skipped_reason
      IN  /\ reason = "Daily Bias NONE" => Run.direction = "NONE"
          /\ reason = "Cooldown" => Run.skip
          /\ reason = "Position Open" =>
               "positions_get" \in Run.calls /\ ~IsNone(Run.positions)
                                              /\ Val(Run.positions) > 0

\* C20: every order sent carries a fill mode that the filling_mode bitmask of
\* the instrument reports as supported (bit 1 is FOK, bit 2 is IOC): IOC
\* whenever the IOC bit is set, FOK only when the IOC bit is clear and the
\* FOK bit is set.
C20_FillModeSupported ==
    Ran /\ Sent /\ ~IsNone(Run.info) =>
      LET mask == Val(Run.info)
          ioc  == (mask \div 2) % 2 = 1
          fok  == mask % 2 = 1
          mode == Run.requests[1].type_filling
      IN  /\ mode \in { "IOC", "FOK" }
          /\ ioc => mode = "IOC"
          /\ mode = "IOC" => ioc
          /\ mode = "FOK" => fok /\ ~ioc

=============================================================================
